---- MODULE Spec2Model ----
(***************************************************************************)
(* State-machine model of the Dhan broker driver                           *)
(* (src/brokers/integrations/dhan/driver.py).                              *)
(*                                                                         *)
(* One caller thread invokes the public operations of one DhanDriver.     *)
(* Each operation is one action that runs the whole handler; its result,  *)
(* the network calls it issued and its arguments are recorded in `last`.  *)
(* The caller then takes the result (Return) and invokes the next one.    *)
(* Two further threads, a refresher and a reader, run download_instruments *)
(* and the readers of the table and of the cache file statement by         *)
(* statement, for the properties that depend on how they interleave.       *)
(***************************************************************************)
EXTENDS Integers, Sequences, FiniteSets, TLC

VARIABLES
    env_creds,          \* DHAN_CLIENT_ID and DHAN_ACCESS_TOKEN are both set
    dhan,               \* self._dhan is a client (TRUE) or None (FALSE)
    capabilities,       \* self.capabilities
    registry,           \* the dhan tables of the MappingRegistry
    master_contract_df, \* self.master_contract_df, or NoAttr
    cache_file,         \* .cache/dhan_master_contract.csv, or NoFile
    feed,               \* self._feed, or NoAttr
    feeds_started,      \* DhanFeed objects whose run_forever thread was started
    feed_threads,       \* the threads started on run_forever, in the order of their start
    last,               \* the operation the caller invoked last, with its outcome
    refresher,          \* a thread inside download_instruments: its position and its df
    reader,             \* a thread reading the table or the cache file, and what it saw
    tick_loop,          \* oi_strategy's hand-off queue and the position of its tick loop
    backtest            \* the fields of a SurvivorBacktest and the price of its current bar

vars == <<env_creds, dhan, capabilities, registry, master_contract_df,
          cache_file, feed, feeds_started, feed_threads, last, refresher, reader, tick_loop, backtest>>

----------------------------------------------------------------------------
(* Python values *)

\* None, where the other values of the field are strings
PyNone == "<None>"

\* str(x) for the string-or-None values of the model: str(None) is "None"
Str(x) == IF x = PyNone THEN "None" ELSE x

\* an optional value: <<>> is None / an absent key, <<v>> is the value v
Nothing == <<>>
Some(v) == <<v>>
IsSome(o) == Len(o) = 1
TheValue(o) == o[1]

\* the attribute was never assigned (hasattr(self, ...) is False)
NoAttr == [attr |-> FALSE]
HasAttr(a) == a.attr

----------------------------------------------------------------------------
(* Domain enums (core/enums.py) and the dhan tables of the MappingRegistry *)

OrderTypes == {"MARKET", "LIMIT", "STOP", "STOP_LIMIT"}
ProductTypes == {"CNC", "INTRADAY", "NRML"}
TransactionTypes == {"BUY", "SELL"}
Validities == {"DAY", "IOC", "TTL"}
Exchanges == {"NSE", "BSE"}

\* M.<kind>["dhan"]: domain value -> dhan wire value, with every domain value mapped
TotalRegistry ==
    [order_type |-> [MARKET |-> "dhan.MARKET", LIMIT |-> "dhan.LIMIT",
                     STOP |-> "dhan.SLM", STOP_LIMIT |-> "dhan.SL"],
     product_type |-> [CNC |-> "dhan.CNC", INTRADAY |-> "dhan.INTRA", NRML |-> "dhan.MARGIN"],
     transaction_type |-> [BUY |-> "dhan.BUY", SELL |-> "dhan.SELL"],
     validity |-> [DAY |-> "dhan.DAY", IOC |-> "dhan.IOC", TTL |-> "dhan.TTL"]]

\* the same tables with the entries dhan has no counterpart for left out
PartialRegistry ==
    [order_type |-> [MARKET |-> "dhan.MARKET", LIMIT |-> "dhan.LIMIT", STOP |-> "dhan.SLM"],
     product_type |-> [CNC |-> "dhan.CNC", INTRADAY |-> "dhan.INTRA"],
     transaction_type |-> [BUY |-> "dhan.BUY"],
     validity |-> [DAY |-> "dhan.DAY", IOC |-> "dhan.IOC"]]

Registries == {TotalRegistry, PartialRegistry}

\* value in table
Mapped(table, v) == v \in DOMAIN table


----------------------------------------------------------------------------
(* Instruments: the master list, its cache file and the resolver *)

Symbols == {"RELIANCE", "reliance", "NIFTY 50", "NIFTY24DECFUT", "NIFTYBEES", "NOTREAL"}

\* what the string tests of _get_exchange_segment see in each symbol
SymbolFacts ==
    [s \in Symbols |->
        [has_nifty |-> s \in {"NIFTY 50", "NIFTY24DECFUT", "NIFTYBEES"},   \* "NIFTY" in symbol
         has_space |-> s = "NIFTY 50",                           \* " " in symbol
         has_digit |-> s \in {"NIFTY 50", "NIFTY24DECFUT"}]]     \* any(char.isdigit() ...)

\* the exchange names that occur in an exchange_id string, letter case ignored
\* (df['exchange_id'].str.contains(exch_str, case=False, na=False))
ExchangeNamesIn(exchange_id) ==
    CASE exchange_id = "NSE" -> {"NSE"}
      [] exchange_id = "BSE" -> {"BSE"}
      [] OTHER -> {}

\* master lists, after the column rename: rows of symbol, exchange_id, token and
\* instrument_type (SEM_INSTRUMENT_NAME; PyNone where the list leaves it empty)
EmptyTable == <<>>
TableA ==
    << [symbol |-> "RELIANCE", exchange_id |-> "NSE", token |-> "2885",
        instrument_type |-> "EQUITY"],
       [symbol |-> "RELIANCE", exchange_id |-> "BSE", token |-> "500325",
        instrument_type |-> "EQUITY"],
       [symbol |-> "NIFTY 50", exchange_id |-> "NSE", token |-> "13",
        instrument_type |-> "INDEX"] >>
TableB ==
    << [symbol |-> "RELIANCE", exchange_id |-> "NSE", token |-> "2886",
        instrument_type |-> PyNone],
       [symbol |-> "NIFTY24DECFUT", exchange_id |-> "NSE", token |-> "35001",
        instrument_type |-> "FUTIDX"],
       [symbol |-> "NIFTYBEES", exchange_id |-> "NSE", token |-> "10576",
        instrument_type |-> "EQUITY"] >>
Tables == {EmptyTable, TableA, TableB}

\* a DataFrame after the column rename, and one still under the column names of
\* the source (SEM_TRADING_SYMBOL, ...)
Df(rows) == [attr |-> TRUE, columns |-> "renamed", rows |-> rows]
SourceDf(rows) == [attr |-> TRUE, columns |-> "source", rows |-> rows]

\* the cache file: absent, written in full, or opened for writing with only
\* the first rows written so far
NoFile == [exists |-> FALSE]
File(rows) == [exists |-> TRUE, complete |-> TRUE, rows |-> rows]
OpenFile(rows) == [exists |-> TRUE, complete |-> FALSE, rows |-> rows]

\* what one fetch of the master list does: pd.read_csv(url) fails or yields a
\* table, and the write of the cache file succeeds or fails
FetchFails == [ok |-> FALSE, table |-> EmptyTable, write_ok |-> FALSE]
Fetches ==
    {FetchFails} \cup {[ok |-> TRUE, table |-> t, write_ok |-> w] : t \in Tables, w \in BOOLEAN}

\* network calls are records of the channel, the api called and its arguments
MasterFetchCall == [chan |-> "master", api |-> "read_csv", args |-> [url |-> "api-scrip-master.csv"]]
BrokerCall(api, args) == [chan |-> "broker", api |-> api, args |-> args]
StreamCall(api, args) == [chan |-> "stream", api |-> api, args |-> args]

\* a failed fetch that leaves an empty table behind
download_instruments_Clobbers(mcdf, cache, fetch) ==
    IF fetch.ok
    THEN [mcdf |-> Df(fetch.table),
          cache |-> IF fetch.write_ok THEN File(fetch.table) ELSE cache,
          calls |-> <<MasterFetchCall>>]
    ELSE [mcdf |-> Df(EmptyTable), cache |-> cache, calls |-> <<MasterFetchCall>>]

\* download_instruments: every exception is caught and printed
download_instruments(mcdf, cache, fetch) ==
    IF fetch.ok
    THEN [mcdf |-> Df(fetch.table),
          cache |-> IF fetch.write_ok THEN File(fetch.table) ELSE cache,
          calls |-> <<MasterFetchCall>>]
    ELSE [mcdf |-> mcdf, cache |-> cache, calls |-> <<MasterFetchCall>>]

\* the mask without its exchange filter
MatchingRows_AnyExchange(rows, symbol, exch_str) ==
    SelectSeq(rows, LAMBDA r : r.symbol = symbol)

\* the rows of df selected by the boolean mask of _lookup_token, in table order
MatchingRows(rows, symbol, exch_str) ==
    SelectSeq(rows, LAMBDA r : r.symbol = symbol /\ exch_str \in ExchangeNamesIn(r.exchange_id))

\* _lookup_token: the token (PyNone when there is none), or an exception raised,
\* with the table and the cache file as the implicit download left them
lookup_token(mcdf, cache, symbol, exchange, fetch) ==
    LET d == IF HasAttr(mcdf)
             THEN [mcdf |-> mcdf, cache |-> cache, calls |-> <<>>]
             ELSE download_instruments(mcdf, cache, fetch)
        base == [raised |-> FALSE, token |-> PyNone,
                 mcdf |-> d.mcdf, cache |-> d.cache, calls |-> d.calls]
    IN  IF ~HasAttr(d.mcdf)
        THEN [base EXCEPT !.raised = TRUE]      \* AttributeError: no master_contract_df
        ELSE IF d.mcdf.rows = <<>>
        THEN base                               \* df.empty
        ELSE LET row == MatchingRows(d.mcdf.rows, symbol, exchange)
             IN  IF row # <<>>
                 THEN [base EXCEPT !.token = Str(row[1].token)]
                 ELSE base

\* _get_exchange_segment
get_exchange_segment(exchange, symbol) ==
    IF exchange = "NSE"
    THEN IF \/ symbol = "NIFTY 50"
            \/ symbol = "NIFTY BANK"
            \/ (SymbolFacts[symbol].has_nifty /\ SymbolFacts[symbol].has_space)
         THEN "IDX_I"
         ELSE IF SymbolFacts[symbol].has_digit \/ SymbolFacts[symbol].has_nifty
         THEN "NSE_FNO"
         ELSE "NSE_EQ"
    ELSE IF exchange = "BSE" THEN "BSE_EQ"
    ELSE IF exchange = "MCX" THEN "MCX_COMM"
    ELSE "NSE_EQ"

----------------------------------------------------------------------------
(* The broker client (dhanhq) as the driver sees it *)

BrokerOrderIds == {"1001", "1002"}

\* what one call of the client does: it raises, or it returns a value that is no
\* dict (resp.get raises AttributeError), or a dict with a status and a data entry
\* that is absent, None or a dict with or without an orderId
BrokerRaises == [kind |-> "raise", status |-> PyNone, data |-> "absent", orderId |-> PyNone]
BrokerNonDict == [kind |-> "nondict", status |-> PyNone, data |-> "absent", orderId |-> PyNone]
BrokerRejects == [kind |-> "dict", status |-> "failure", data |-> "absent", orderId |-> PyNone]
BrokerSuccess(data, id) == [kind |-> "dict", status |-> "success", data |-> data, orderId |-> id]
BrokerResponses ==
    {BrokerRaises, BrokerNonDict, BrokerRejects,
     BrokerSuccess("absent", PyNone), BrokerSuccess("null", PyNone), BrokerSuccess("dict", PyNone)}
    \cup {BrokerSuccess("dict", id) : id \in BrokerOrderIds}

\* resp.get("data", {}).get("orderId"): raises when data is None
DataOrderIdRaises(resp) == resp.data = "null"
DataOrderId(resp) == IF resp.data = "dict" THEN resp.orderId ELSE PyNone

----------------------------------------------------------------------------
(* OrderResponse (core/schemas.py) *)

\* raw as the constructor leaves it when the call passes no raw argument
RawDefault == [populated |-> FALSE]
Raw(payload) == [populated |-> TRUE, payload |-> payload]

\* the dict {"error": message}
ErrorDict(message) == [error |-> message]

OrderResponse(status, order_id, message, raw) ==
    [type |-> "OrderResponse", status |-> status, order_id |-> order_id,
     message |-> message, raw |-> raw]

----------------------------------------------------------------------------
(* Orders *)

\* the check of self._dhan left out
NotAuthenticated_Skipped(client) == FALSE

\* `if not self._dhan`
NotAuthenticated(client) == ~client

\* the try without its except clause
TryExcept_Uncaught(body, handler) == body

\* try: body / except Exception as e: return handler -- what the body did up to
\* the raise stays done
TryExcept(body, handler) ==
    IF body.raised THEN [body EXCEPT !.raised = FALSE, !.result = handler] ELSE body

\* M.<kind>["dhan"][value]: KeyError when the value has no entry
TranslateRaises(table, v) == ~Mapped(table, v)
Translate(table, v) == table[v]

\* the price zeroed for every order type
OutboundPrice_AlwaysZero(request) == 0

\* the price sent as given for every order type
OutboundPrice_Unconditional(request) == request.price

\* the price argument of self._dhan.place_order
OutboundPrice(request) == IF request.order_type = "LIMIT" THEN request.price ELSE 0

\* `if request.price <= 0: request.price = 0.0`
NormalizePrice(request) ==
    IF request.price <= 0 THEN [request EXCEPT !.price = 0] ELSE request

\* the check of the resolved security id left out
NoSecurityId_Ignored(token) == FALSE

\* `if not security_id`
NoSecurityId(token) == token = PyNone \/ token = ""

\* the order id of the ok response: str(resp.get("data", {}).get("orderId"))
PlacedOrderId(resp) == Str(DataOrderId(resp))

\* the placement sent again when its first answer is not a success
PlacementCalls_Retry(call, resp) ==
    IF resp.kind # "dict" \/ resp.status # "success" THEN <<call, call>> ELSE <<call>>

\* line 249: the one self._dhan.place_order call of an invocation, whatever its
\* answer
PlacementCalls(call, resp) == <<call>>

\* place_order, lines 233-266: the body of the try
PlaceOrderBody(request, fetch, resp) ==
    LET start == [raised |-> FALSE, result |-> OrderResponse("error", PyNone, PyNone, RawDefault),
                  calls |-> <<>>, mcdf |-> master_contract_df, cache |-> cache_file,
                  request |-> request]
    IN  IF \/ TranslateRaises(registry.order_type, request.order_type)
           \/ TranslateRaises(registry.product_type, request.product_type)
           \/ TranslateRaises(registry.transaction_type, request.transaction_type)
           \/ TranslateRaises(registry.validity, request.validity)
        THEN [start EXCEPT !.raised = TRUE]
        ELSE
        LET lk == lookup_token(master_contract_df, cache_file, request.symbol, request.exchange, fetch)
            looked == [start EXCEPT !.calls = lk.calls, !.mcdf = lk.mcdf, !.cache = lk.cache]
        IN  IF lk.raised THEN [looked EXCEPT !.raised = TRUE]
            ELSE IF NoSecurityId(lk.token)
            THEN [looked EXCEPT !.result =
                      OrderResponse("error", PyNone, "Symbol not found in master", RawDefault)]
            ELSE
            LET req2 == NormalizePrice(request)
                call == BrokerCall("place_order",
                            [security_id |-> lk.token,
                             exchange_segment |-> get_exchange_segment(request.exchange, request.symbol),
                             transaction_type |-> Translate(registry.transaction_type, request.transaction_type),
                             quantity |-> req2.quantity,
                             order_type |-> Translate(registry.order_type, request.order_type),
                             product_type |-> Translate(registry.product_type, request.product_type),
                             price |-> OutboundPrice(req2),
                             trigger_price |-> req2.stop_price,
                             validity |-> Translate(registry.validity, request.validity)])
                called == [looked EXCEPT !.calls = lk.calls \o PlacementCalls(call, resp),
                                        !.request = req2]
            IN  IF resp.kind # "dict" THEN [called EXCEPT !.raised = TRUE]
                ELSE IF resp.status = "success"
                THEN IF DataOrderIdRaises(resp) THEN [called EXCEPT !.raised = TRUE]
                     ELSE [called EXCEPT !.result =
                               OrderResponse("ok", PlacedOrderId(resp), PyNone, Raw(resp))]
                ELSE [called EXCEPT !.result =
                          OrderResponse("error", PyNone, "str(resp)", Raw(resp))]

\* place_order
place_order(request, fetch, resp) ==
    IF NotAuthenticated(dhan)
    THEN [raised |-> FALSE,
          result |-> OrderResponse("error", PyNone, "unauthenticated", RawDefault),
          calls |-> <<>>, mcdf |-> master_contract_df, cache |-> cache_file,
          request |-> request]
    ELSE TryExcept(PlaceOrderBody(request, fetch, resp),
                   OrderResponse("error", PyNone, "str(e)", RawDefault))

\* an operation that leaves the request, the table and the cache file alone
Outcome(result, calls) ==
    [raised |-> FALSE, result |-> result, calls |-> calls,
     mcdf |-> master_contract_df, cache |-> cache_file]

\* the responses built without the order id
EchoedOrderId_Dropped(order_id) == PyNone

\* the order_id of the responses built inside the try of cancel_order and modify_order
EchoedOrderId(order_id) == Str(order_id)

\* the response to the client's answer, lines 276-278 and 315-317
StatusResponse(order_id, call, resp) ==
    IF resp.kind # "dict"
    THEN [Outcome(OrderResponse("error", PyNone, PyNone, RawDefault), <<call>>) EXCEPT !.raised = TRUE]
    ELSE IF resp.status = "success"
    THEN Outcome(OrderResponse("ok", EchoedOrderId(order_id), PyNone, Raw(resp)), <<call>>)
    ELSE Outcome(OrderResponse("error", EchoedOrderId(order_id), "str(resp)", Raw(resp)), <<call>>)

\* cancel_order
cancel_order(order_id, resp) ==
    IF NotAuthenticated(dhan)
    THEN Outcome(OrderResponse("error", order_id, "unauthenticated", RawDefault), <<>>)
    ELSE TryExcept(StatusResponse(order_id, BrokerCall("cancel_order", [order_id |-> order_id]), resp),
                   OrderResponse("error", EchoedOrderId(order_id), "str(e)", RawDefault))

\* `M.<kind>["dhan"].get(value, value)` under `if value:`, on an optional value
TranslateIfPresent(table, o) ==
    IF IsSome(o)
    THEN IF Mapped(table, TheValue(o)) THEN Some(table[TheValue(o)]) ELSE o
    ELSE o

\* the arguments of self._dhan.modify_order, lines 294-313
ModifyArgs(order_id, updates) ==
    [order_id |-> order_id,
     order_type |-> TranslateIfPresent(registry.order_type, updates.order_type),
     quantity |-> updates.quantity,
     price |-> updates.price,
     trigger_price |-> updates.trigger_price,
     validity |-> TranslateIfPresent(registry.validity, updates.validity)]

\* modify_order; updates holds updates.get(key) for the five keys read
modify_order(order_id, updates, resp) ==
    IF NotAuthenticated(dhan)
    THEN Outcome(OrderResponse("error", order_id, "unauthenticated", RawDefault), <<>>)
    ELSE TryExcept(StatusResponse(order_id, BrokerCall("modify_order", ModifyArgs(order_id, updates)), resp),
                   OrderResponse("error", EchoedOrderId(order_id), "str(e)", RawDefault))

\* place_gtt_oco_order, lines 354-396: the body of the try, for the exchange and
\* the symbol the argument splits into
GttBody(exchange, symbol, fetch) ==
    LET lk == lookup_token(master_contract_df, cache_file, symbol, exchange, fetch)
        looked == [raised |-> lk.raised, calls |-> lk.calls, mcdf |-> lk.mcdf, cache |-> lk.cache,
                   result |-> OrderResponse("error", PyNone, "Symbol not found", RawDefault)]
    IN  IF lk.raised \/ NoSecurityId(lk.token)
        THEN looked
        ELSE [looked EXCEPT !.result =
                  OrderResponse("error", PyNone, "GTT OCO implementation requires verification", RawDefault)]

\* place_gtt_oco_order
place_gtt_oco_order(exchange, symbol, fetch) ==
    IF NotAuthenticated(dhan)
    THEN Outcome(OrderResponse("error", PyNone, "unauthenticated", RawDefault), <<>>)
    ELSE TryExcept(GttBody(exchange, symbol, fetch),
                   OrderResponse("error", PyNone, "str(e)", RawDefault))

----------------------------------------------------------------------------
(* Account and books *)

Funds(equity, available_cash, used_margin, net, raw) ==
    [type |-> "Funds", equity |-> equity, available_cash |-> available_cash,
     used_margin |-> used_margin, net |-> net, raw |-> raw]

\* get_fund_limits answers: data carries availabelBalance and utilizedAmount
FundsResponses ==
    {[kind |-> k, status |-> PyNone, data |-> "absent", available |-> 0, used |-> 0] : k \in {"raise", "nondict"}}
    \cup {[kind |-> "dict", status |-> "failure", data |-> "absent", available |-> 0, used |-> 0],
          [kind |-> "dict", status |-> "success", data |-> "absent", available |-> 0, used |-> 0],
          [kind |-> "dict", status |-> "success", data |-> "null", available |-> 0, used |-> 0],
          [kind |-> "dict", status |-> "success", data |-> "dict", available |-> 100, used |-> 40]}

\* get_funds
get_funds(resp) ==
    IF NotAuthenticated(dhan)
    THEN Outcome(Funds(0, 0, 0, 0, Raw(ErrorDict("unauthenticated"))), <<>>)
    ELSE LET call == BrokerCall("get_fund_limits", [none |-> TRUE])
         IN  IF resp.kind # "dict" \/ (resp.status = "success" /\ resp.data = "null")
             THEN Outcome(Funds(0, 0, 0, 0, Raw(ErrorDict("str(e)"))), <<call>>)
             ELSE IF resp.status = "success"
             THEN Outcome(Funds(resp.available + resp.used, resp.available, resp.used,
                                resp.available, Raw(resp)), <<call>>)
             ELSE Outcome(Funds(0, 0, 0, 0, Raw(resp)), <<call>>)

\* the positions a get_positions answer may carry
PositionPayloads ==
    [tradingSymbol : {"RELIANCE"},
     exchangeSegment : {"NSE_EQ", "BSE_EQ", "MCX_COMM", "CDS_FX"},
     productType : {"CNC", "MARGIN", "INTRADAY", "BIT", "CO"},
     netQty : {10}]

\* lines 101-105: the exchange of a position
PositionExchange(exch_str) ==
    IF exch_str \in {"NSE_EQ"} THEN "NSE"
    ELSE IF exch_str \in {"BSE_EQ"} THEN "BSE"
    ELSE IF exch_str \in {"MCX_COMM"} THEN "MCX"
    ELSE "NSE"

\* lines 109-113: the product type of a position
PositionProduct(dhan_prod) ==
    IF dhan_prod = "CNC" THEN "CNC"
    ELSE IF dhan_prod = "MARGIN" THEN "MARGIN"
    ELSE "INTRADAY"

Position(p) ==
    [type |-> "Position", symbol |-> p.tradingSymbol, exchange |-> PositionExchange(p.exchangeSegment),
     quantity_total |-> p.netQty, quantity_available |-> p.netQty,
     product_type |-> PositionProduct(p.productType), raw |-> Raw(p)]

\* answers that carry a list: kind and status as above, data the list
ListResponses(lists) ==
    {[kind |-> k, status |-> PyNone, data |-> <<>>] : k \in {"raise", "nondict"}}
    \cup {[kind |-> "dict", status |-> "failure", data |-> <<>>]}
    \cup {[kind |-> "dict", status |-> "success", data |-> l] : l \in lists}

PyList(items) == [type |-> "list", items |-> items]

\* resp.get("data", []) of a success answer; every other answer gives no entries
SuccessData(resp) ==
    IF resp.kind = "dict" /\ resp.status = "success" THEN resp.data ELSE <<>>

\* get_positions
get_positions(resp) ==
    IF NotAuthenticated(dhan)
    THEN Outcome(PyList(<<>>), <<>>)
    ELSE Outcome(PyList([i \in 1..Len(SuccessData(resp)) |-> Position(SuccessData(resp)[i])]),
                 <<BrokerCall("get_positions", [none |-> TRUE])>>)

\* get_orderbook
get_orderbook(resp) ==
    IF NotAuthenticated(dhan)
    THEN Outcome(PyList(<<>>), <<>>)
    ELSE Outcome(PyList(SuccessData(resp)), <<BrokerCall("get_order_list", [none |-> TRUE])>>)

\* get_tradebook
get_tradebook(resp) ==
    IF NotAuthenticated(dhan)
    THEN Outcome(PyList(<<>>), <<>>)
    ELSE Outcome(PyList(SuccessData(resp)), <<BrokerCall("get_trade_book", [none |-> TRUE])>>)

----------------------------------------------------------------------------
(* Market data *)

\* the members of the Exchange enum the driver names
ExchangeMembers == {"NSE", "BSE", "MCX", "NFO"}

\* a symbol argument: "PREFIX:name" (prefix a string) or "name" (prefix PyNone)
QualifiedSymbols(prefixes, names) == [prefix : prefixes, name : names]

\* lines 407-413 and 449-455: the exchange a symbol argument names, NSE by default
QuoteExchange(symbol) ==
    IF symbol.prefix \in {"NSE", "BSE", "MCX"} THEN symbol.prefix ELSE "NSE"

Quote(symbol, exchange, last_price, raw) ==
    [type |-> "Quote", symbol |-> symbol, exchange |-> exchange,
     last_price |-> last_price, raw |-> raw]

\* the tradingsymbol as a symbol value
Unqualified(name) == [prefix |-> PyNone, name |-> name]

\* get_quote answers: data carries last_price, or lacks it (has_price FALSE)
QuoteResponses ==
    {[kind |-> k, status |-> PyNone, data |-> "absent", has_price |-> FALSE, last_price |-> 0]
        : k \in {"raise", "nondict"}}
    \cup {[kind |-> "dict", status |-> "failure", data |-> "absent", has_price |-> FALSE, last_price |-> 0],
          [kind |-> "dict", status |-> "success", data |-> "absent", has_price |-> FALSE, last_price |-> 0],
          [kind |-> "dict", status |-> "success", data |-> "null", has_price |-> FALSE, last_price |-> 0],
          [kind |-> "dict", status |-> "success", data |-> "dict", has_price |-> FALSE, last_price |-> 0]}
    \cup {[kind |-> "dict", status |-> "success", data |-> "dict", has_price |-> TRUE, last_price |-> p]
        : p \in {2500, 19500}}

\* lines 422-424: the instrument type sent with a quote request
QuoteInstrumentType(exch_seg) ==
    IF exch_seg \in {"NSE_INDEX"} THEN "INDEX"       \* "INDEX" in exch_seg
    ELSE IF exch_seg \in {"NSE_FNO"} THEN "FNO"      \* "FNO" in exch_seg
    ELSE "EQUITY"

\* get_quote, lines 407-436: the body of the try
GetQuoteBody(symbol, fetch, resp) ==
    LET exch == QuoteExchange(symbol)
        lk == lookup_token(master_contract_df, cache_file, symbol.name, exch, fetch)
        looked == [raised |-> lk.raised, calls |-> lk.calls, mcdf |-> lk.mcdf, cache |-> lk.cache,
                   result |-> Quote(symbol, exch, 0, Raw(ErrorDict("Symbol not found")))]
    IN  IF lk.raised \/ NoSecurityId(lk.token) THEN looked
        ELSE
        LET exch_seg == get_exchange_segment(exch, symbol.name)
            call == BrokerCall("get_quote",
                        [security_id |-> lk.token, exchange_segment |-> exch_seg,
                         instrument_type |-> QuoteInstrumentType(exch_seg)])
            called == [looked EXCEPT !.calls = Append(lk.calls, call)]
        IN  IF resp.kind # "dict" \/ (resp.status = "success" /\ resp.data = "null")
            THEN [called EXCEPT !.raised = TRUE]
            ELSE IF resp.status = "success"
            THEN [called EXCEPT !.result =
                      Quote(Unqualified(symbol.name), exch,
                            IF resp.has_price THEN resp.last_price ELSE 0, Raw(resp))]
            ELSE [called EXCEPT !.result = Quote(symbol, exch, 0, Raw(resp))]

\* get_quote
get_quote(symbol, fetch, resp) ==
    IF NotAuthenticated(dhan)
    THEN Outcome(Quote(symbol, "NSE", 0, Raw(ErrorDict("unauthenticated"))), <<>>)
    ELSE TryExcept(GetQuoteBody(symbol, fetch, resp),
                   Quote(symbol, QuoteExchange(symbol), 0, Raw(ErrorDict("str(e)"))))

\* lines 500-514: one candle of the answer as returned
Candle(c) == [ts |-> c.start_Time, close |-> c.close, oi |-> 0]

CandleLists == {<<>>, <<[start_Time |-> 1, close |-> 2500]>>}

\* get_history, lines 446-515: the body of the try
GetHistoryBody(symbol, fetch, resp) ==
    LET exch == QuoteExchange(symbol)
        lk == lookup_token(master_contract_df, cache_file, symbol.name, exch, fetch)
        looked == [raised |-> lk.raised, calls |-> lk.calls, mcdf |-> lk.mcdf, cache |-> lk.cache,
                   result |-> PyList(<<>>)]
    IN  IF lk.raised \/ NoSecurityId(lk.token) THEN looked
        ELSE
        LET call == BrokerCall("intraday_minute_data",
                        [security_id |-> lk.token,
                         exchange_segment |-> get_exchange_segment(exch, symbol.name),
                         instrument_type |-> "EQUITY"])
            called == [looked EXCEPT !.calls = Append(lk.calls, call)]
        IN  IF resp.kind # "dict" THEN [called EXCEPT !.raised = TRUE]
            ELSE [called EXCEPT !.result =
                      PyList([i \in 1..Len(SuccessData(resp)) |-> Candle(SuccessData(resp)[i])])]

\* get_history
get_history(symbol, fetch, resp) ==
    IF NotAuthenticated(dhan)
    THEN Outcome(PyList(<<>>), <<>>)
    ELSE TryExcept(GetHistoryBody(symbol, fetch, resp), PyList(<<>>))

----------------------------------------------------------------------------
(* Websockets *)

\* the most DhanFeed objects one driver creates
MaxFeeds == 2
\* the longest symbol list passed to symbols_to_subscribe
MaxSubscribe == 2

PyNoneResult == [type |-> "None"]

\* an operation on the feed: the table and the cache file stay, the feed may change
FeedOutcome(raised, calls, fd, started) ==
    [raised |-> raised, result |-> PyNoneResult, calls |-> calls,
     mcdf |-> master_contract_df, cache |-> cache_file, feed |-> fd, started |-> started,
     threads |-> feed_threads]

\* DhanFeed(client_id, access_token, instruments=[]) with the callbacks given
NewFeed(id, on_ticks, on_connect) ==
    [attr |-> TRUE, id |-> id, on_ticks |-> on_ticks, on_connect |-> on_connect,
     on_order_update |-> FALSE, subscribed |-> {}]

\* run_forever called by connect_websocket itself
FeedThread_Inline == [state |-> "running", context |-> "caller"]

\* lines 547-549: threading.Thread(target=self._feed.run_forever), daemon, started
FeedThread == [state |-> "running", context |-> "background"]

\* what the dhanhq import and the DhanFeed constructor do
FeedEnvs == {"ok", "import_fails", "constructor_raises"}

\* connect_websocket; every exception of the try is caught and printed
connect_websocket(on_ticks, on_connect, env) ==
    IF NotAuthenticated(dhan) THEN FeedOutcome(FALSE, <<>>, feed, feeds_started)
    ELSE IF env = "import_fails" THEN FeedOutcome(FALSE, <<>>, feed, feeds_started)
    ELSE IF ~env_creds THEN FeedOutcome(FALSE, <<>>, feed, feeds_started)
    ELSE IF env = "constructor_raises" THEN FeedOutcome(FALSE, <<>>, feed, feeds_started)
    ELSE [FeedOutcome(FALSE,
                      <<StreamCall("run_forever", [feed_id |-> feeds_started + 1])>>,
                      NewFeed(feeds_started + 1, on_ticks, on_connect),
                      feeds_started + 1)
             EXCEPT !.threads = Append(feed_threads, FeedThread)]

\* `not hasattr(self, '_feed') or not self._feed`
NoFeed(fd) == ~HasAttr(fd)

\* lines 561-566: the exchange of a symbol to subscribe
SubscribeExchange(symbol) ==
    IF symbol.prefix \in ExchangeMembers THEN symbol.prefix ELSE "NSE"

\* lines 559-580 after the first symbol: sub_list for symbols, on the loaded table
RECURSIVE SubList(_, _)
SubList(symbols, mcdf) ==
    IF symbols = <<>> THEN <<>>
    ELSE LET s == Head(symbols)
             exch == SubscribeExchange(s)
             lk == lookup_token(mcdf, cache_file, s.name, exch, FetchFails)
             rest == SubList(Tail(symbols), mcdf)
         IN  IF NoSecurityId(lk.token) THEN rest
             ELSE <<(<<get_exchange_segment(exch, s.name), lk.token>>)>> \o rest

\* symbols_to_subscribe, lines 555-587; nothing is caught
SubscribeBody(symbols, fetch, subscribe_ok) ==
    IF NoFeed(feed) THEN FeedOutcome(FALSE, <<>>, feed, feeds_started)
    ELSE IF symbols = <<>> THEN FeedOutcome(FALSE, <<>>, feed, feeds_started)
    ELSE
    LET first == lookup_token(master_contract_df, cache_file, symbols[1].name,
                              SubscribeExchange(symbols[1]), fetch)
        looked == [FeedOutcome(first.raised, first.calls, feed, feeds_started)
                       EXCEPT !.mcdf = first.mcdf, !.cache = first.cache]
    IN  IF first.raised THEN looked
        ELSE LET sub_list == SubList(symbols, first.mcdf)
                 call == StreamCall("subscribe_symbols", [sub_list |-> sub_list])
             IN  IF sub_list = <<>> THEN looked
                 ELSE IF ~subscribe_ok
                 THEN [looked EXCEPT !.raised = TRUE, !.calls = Append(first.calls, call)]
                 ELSE [looked EXCEPT
                          !.calls = Append(first.calls, call),
                          !.feed = [feed EXCEPT !.subscribed =
                                       @ \cup {sub_list[i] : i \in 1..Len(sub_list)}]]

\* what symbols_to_subscribe prints or logs about the symbols it drops: the
\* method has no print and no logging statement
SubscribeWarnings(symbols) == <<>>

\* symbols_to_subscribe: None, here with the warnings recorded on the way
symbols_to_subscribe(symbols, fetch, subscribe_ok) ==
    [SubscribeBody(symbols, fetch, subscribe_ok)
        EXCEPT !.result = [type |-> "None", warnings |-> SubscribeWarnings(symbols)]]

\* connect_order_websocket
connect_order_websocket(on_order_update, on_ticks, on_connect, env) ==
    LET c == IF ~HasAttr(feed)
             THEN connect_websocket(on_ticks, on_connect, env)
             ELSE FeedOutcome(FALSE, <<>>, feed, feeds_started)
    IN  IF HasAttr(c.feed) /\ on_order_update
        THEN [c EXCEPT !.feed = [c.feed EXCEPT !.on_order_update = TRUE]]
        ELSE c

\* get_instruments; reading the cache file may raise, and nothing is caught
get_instruments(read_ok) ==
    IF HasAttr(master_contract_df)
    THEN Outcome([type |-> "DataFrame", rows |-> master_contract_df.rows], <<>>)
    ELSE IF cache_file.exists
    THEN IF read_ok
         THEN [Outcome([type |-> "DataFrame", rows |-> cache_file.rows], <<>>)
                  EXCEPT !.mcdf = Df(cache_file.rows)]
         ELSE [Outcome(PyList(<<>>), <<>>) EXCEPT !.raised = TRUE]
    ELSE Outcome(PyList(<<>>), <<>>)

----------------------------------------------------------------------------
(* The state machine *)

\* BrokerCapabilities as __init__ builds it
InitialCapabilities ==
    [supports_historical |-> TRUE, supports_quotes |-> TRUE, supports_funds |-> TRUE,
     supports_positions |-> TRUE, supports_place_order |-> TRUE,
     supports_modify_order |-> TRUE, supports_cancel_order |-> TRUE,
     supports_tradebook |-> TRUE, supports_orderbook |-> TRUE,
     supports_websocket |-> TRUE, supports_order_websocket |-> TRUE,
     supports_master_contract |-> FALSE, supports_option_chain |-> FALSE,
     supports_gtt |-> TRUE, supports_bracket_order |-> FALSE,
     supports_cover_order |-> FALSE, supports_multileg_order |-> FALSE,
     supports_basket_orders |-> FALSE]

\* the caller holds no result
Idle == [op |-> "idle"]

\* the thread, the tick loop or the backtest is not running
NoThread == [pc |-> "none"]

\* the caller's record of an operation that ended with outcome o
Ended(op, args, o) ==
    [op |-> op, args |-> args, raised |-> o.raised, result |-> o.result, calls |-> o.calls]

\* what `from dhanhq import dhanhq` and dhanhq(client_id, access_token) do
ClientInits == {"ok", "import_error", "exception"}

\* __init__ without the except clauses of its try
DhanDriver_NoExcept(creds, client_init) ==
    [raised |-> creds /\ client_init # "ok", result |-> [type |-> "DhanDriver"], calls |-> <<>>,
     capabilities |-> InitialCapabilities, dhan |-> creds /\ client_init = "ok"]

\* __init__: the client is built only when both credentials are set, and an
\* ImportError or any other exception of the build is caught and printed
DhanDriver(creds, client_init) ==
    [raised |-> FALSE, result |-> [type |-> "DhanDriver"], calls |-> <<>>,
     capabilities |-> InitialCapabilities, dhan |-> creds /\ client_init = "ok"]

\* __init__: the client exists only if both credentials are set and dhanhq
\* could be imported and built; the cache file may be left from an earlier run
Init ==
    /\ env_creds \in BOOLEAN
    /\ dhan \in {d \in BOOLEAN : d => env_creds}
    /\ capabilities = InitialCapabilities
    /\ registry \in Registries
    /\ master_contract_df = NoAttr
    /\ cache_file \in {NoFile} \cup {File(t) : t \in Tables}
    /\ feed = NoAttr
    /\ feeds_started = 0
    /\ feed_threads = <<>>
    /\ last = Idle
    /\ refresher = NoThread
    /\ reader = NoThread
    /\ tick_loop = NoThread
    /\ backtest = NoThread

\* the caller has not constructed the driver yet
NotBuilt == [op |-> "not built"]

\* the process before DhanDriver() is called
InitNew ==
    /\ env_creds \in BOOLEAN
    /\ dhan = FALSE
    /\ capabilities = NoAttr
    /\ registry \in Registries
    /\ master_contract_df = NoAttr
    /\ cache_file \in {NoFile} \cup {File(t) : t \in Tables}
    /\ feed = NoAttr
    /\ feeds_started = 0
    /\ feed_threads = <<>>
    /\ last = NotBuilt
    /\ refresher = NoThread
    /\ reader = NoThread
    /\ tick_loop = NoThread
    /\ backtest = NoThread

\* DhanDriver()
Construct ==
    /\ last = NotBuilt
    /\ \E client_init \in ClientInits :
          LET o == DhanDriver(env_creds, client_init)
          IN  /\ dhan' = o.dhan
              /\ capabilities' = o.capabilities
              /\ last' = Ended("DhanDriver", [client_init |-> client_init], o)
    /\ UNCHANGED <<env_creds, registry, master_contract_df, cache_file, feed,
                   feeds_started, feed_threads, refresher, reader, tick_loop, backtest>>

\* an operation that withdraws a capability it could not serve
Finish_DropsFlag(op, args, o) ==
    /\ master_contract_df' = o.mcdf
    /\ cache_file' = o.cache
    /\ last' = Ended(op, args, o)
    /\ capabilities' = [capabilities EXCEPT !.supports_gtt = FALSE]
    /\ UNCHANGED <<env_creds, dhan, registry, feed, feeds_started, feed_threads,
                   refresher, reader, tick_loop, backtest>>

\* an operation that touches neither the feed nor the configuration
Finish(op, args, o) ==
    /\ master_contract_df' = o.mcdf
    /\ cache_file' = o.cache
    /\ last' = Ended(op, args, o)
    /\ UNCHANGED <<env_creds, dhan, capabilities, registry, feed, feeds_started, feed_threads,
                   refresher, reader, tick_loop, backtest>>

\* an operation on the feed
FinishFeed(op, args, o) ==
    /\ master_contract_df' = o.mcdf
    /\ cache_file' = o.cache
    /\ feed' = o.feed
    /\ feeds_started' = o.started
    /\ feed_threads' = o.threads
    /\ last' = Ended(op, args, o)
    /\ UNCHANGED <<env_creds, dhan, capabilities, registry, refresher, reader, tick_loop, backtest>>

\* the fetch outcomes that matter: one only, unless the table is still to be loaded
FetchChoices == IF HasAttr(master_contract_df) THEN {FetchFails} ELSE Fetches

OrderRequests(symbols, exchanges, txns, order_types, products, validities, quantities, prices) ==
    [symbol : symbols, exchange : exchanges, transaction_type : txns,
     order_type : order_types, product_type : products, validity : validities,
     quantity : quantities, price : prices, stop_price : {0}]

PlaceOrder(requests) ==
    /\ last = Idle
    /\ \E request \in requests, fetch \in FetchChoices, resp \in BrokerResponses :
          LET o == place_order(request, fetch, resp)
          IN  Finish("place_order", [request |-> request, request_after |-> o.request], o)

CancelOrder(order_ids) ==
    /\ last = Idle
    /\ \E order_id \in order_ids, resp \in BrokerResponses :
          Finish("cancel_order", [order_id |-> order_id], cancel_order(order_id, resp))

ModifyOrder(order_ids, updates_set) ==
    /\ last = Idle
    /\ \E order_id \in order_ids, updates \in updates_set, resp \in BrokerResponses :
          Finish("modify_order", [order_id |-> order_id, updates |-> updates],
                 modify_order(order_id, updates, resp))

PlaceGttOcoOrder(exchanges, symbols) ==
    /\ last = Idle
    /\ \E exchange \in exchanges, symbol \in symbols, fetch \in FetchChoices :
          Finish("place_gtt_oco_order", [exchange |-> exchange, symbol |-> symbol],
                 place_gtt_oco_order(exchange, symbol, fetch))

GetFunds ==
    /\ last = Idle
    /\ \E resp \in FundsResponses : Finish("get_funds", [none |-> TRUE], get_funds(resp))

GetPositions ==
    /\ last = Idle
    /\ \E resp \in ListResponses({<<>>} \cup {<<p>> : p \in PositionPayloads}) :
          Finish("get_positions", [none |-> TRUE], get_positions(resp))

GetOrderbook ==
    /\ last = Idle
    /\ \E resp \in ListResponses({<<>>, <<"order">>}) :
          Finish("get_orderbook", [none |-> TRUE], get_orderbook(resp))

GetTradebook ==
    /\ last = Idle
    /\ \E resp \in ListResponses({<<>>, <<"trade">>}) :
          Finish("get_tradebook", [none |-> TRUE], get_tradebook(resp))

GetQuote(symbols) ==
    /\ last = Idle
    /\ \E symbol \in symbols, fetch \in FetchChoices, resp \in QuoteResponses :
          Finish("get_quote", [symbol |-> symbol], get_quote(symbol, fetch, resp))

GetHistory(symbols) ==
    /\ last = Idle
    /\ \E symbol \in symbols, fetch \in FetchChoices, resp \in ListResponses(CandleLists) :
          Finish("get_history", [symbol |-> symbol], get_history(symbol, fetch, resp))

DownloadInstruments ==
    /\ last = Idle
    /\ \E fetch \in Fetches :
          LET d == download_instruments(master_contract_df, cache_file, fetch)
          IN  Finish("download_instruments", [fetch |-> fetch],
                     [raised |-> FALSE, result |-> PyNoneResult, calls |-> d.calls,
                      mcdf |-> d.mcdf, cache |-> d.cache])

\* _lookup_token called on its own, as symbols_to_subscribe and the order and
\* market-data operations call it
LookupToken(symbols, exchanges) ==
    /\ last = Idle
    /\ \E symbol \in symbols, exchange \in exchanges, fetch \in FetchChoices :
          LET lk == lookup_token(master_contract_df, cache_file, symbol, exchange, fetch)
          IN  Finish("lookup_token", [symbol |-> symbol, exchange |-> exchange],
                     [raised |-> lk.raised, result |-> [type |-> "token", token |-> lk.token],
                      calls |-> lk.calls, mcdf |-> lk.mcdf, cache |-> lk.cache])

\* _lookup_token called twice in a row with the same arguments; each call meets
\* its own outcome of the master-list fetch, should it fetch
LookupTokenTwice(symbols, exchanges) ==
    /\ last = Idle
    /\ \E symbol \in symbols, exchange \in exchanges, fetch1 \in FetchChoices, fetch2 \in Fetches :
          LET a == lookup_token(master_contract_df, cache_file, symbol, exchange, fetch1)
              b == lookup_token(a.mcdf, a.cache, symbol, exchange, fetch2)
          IN  Finish("lookup_token_twice", [symbol |-> symbol, exchange |-> exchange],
                     [raised |-> b.raised,
                      result |-> [type |-> "tokens",
                                  first |-> [raised |-> a.raised, token |-> a.token],
                                  second |-> [raised |-> b.raised, token |-> b.token]],
                      calls |-> a.calls \o b.calls, mcdf |-> b.mcdf, cache |-> b.cache])

GetInstruments ==
    /\ last = Idle
    /\ \E read_ok \in BOOLEAN :
          Finish("get_instruments", [none |-> TRUE], get_instruments(read_ok))

ConnectWebsocket ==
    /\ last = Idle
    /\ feeds_started < MaxFeeds
    /\ \E on_ticks \in BOOLEAN, on_connect \in BOOLEAN, env \in FeedEnvs :
          FinishFeed("connect_websocket", [on_ticks |-> on_ticks, on_connect |-> on_connect],
                     connect_websocket(on_ticks, on_connect, env))

\* the symbol lists of at most MaxSubscribe symbols
SymbolLists(symbols) ==
    UNION {[1..n -> symbols] : n \in 0..MaxSubscribe}

SymbolsToSubscribe(symbols) ==
    /\ last = Idle
    /\ \E list \in SymbolLists(symbols), fetch \in FetchChoices, subscribe_ok \in BOOLEAN :
          FinishFeed("symbols_to_subscribe", [symbols |-> list],
                     symbols_to_subscribe(list, fetch, subscribe_ok))

ConnectOrderWebsocket ==
    /\ last = Idle
    /\ feeds_started < MaxFeeds
    /\ \E on_order_update \in BOOLEAN, on_ticks \in BOOLEAN, env \in FeedEnvs :
          FinishFeed("connect_order_websocket",
                     [on_order_update |-> on_order_update, on_ticks |-> on_ticks],
                     connect_order_websocket(on_order_update, on_ticks, FALSE, env))

\* the caller's thread is inside a run_forever that has not ended
CallerBlocked ==
    \E i \in 1..Len(feed_threads) :
        feed_threads[i].context = "caller" /\ feed_threads[i].state = "running"

\* the caller takes the result and is ready for the next call
Return ==
    /\ last # Idle
    /\ ~CallerBlocked
    /\ last' = Idle
    /\ UNCHANGED <<env_creds, dhan, capabilities, registry, master_contract_df,
                   cache_file, feed, feeds_started, feed_threads, refresher, reader, tick_loop, backtest>>

----------------------------------------------------------------------------
(* The whole driver, each operation on a few inputs *)

SampleRequests ==
    OrderRequests({"RELIANCE", "NOTREAL"}, {"NSE"}, {"BUY"}, {"LIMIT", "MARKET"},
                  {"INTRADAY"}, {"DAY", "TTL"}, {0, 10}, {2500})
SampleOrderIds == {"1001"}
SampleUpdates ==
    [quantity : {Nothing, Some(5)}, price : {Nothing}, trigger_price : {Nothing},
     order_type : {Nothing, Some("LIMIT")}, validity : {Nothing, Some("TTL")}]
SampleSymbols == QualifiedSymbols({"NSE", PyNone}, {"RELIANCE", "NOTREAL"})

Next ==
    \/ PlaceOrder(SampleRequests)
    \/ CancelOrder(SampleOrderIds)
    \/ ModifyOrder(SampleOrderIds, SampleUpdates)
    \/ PlaceGttOcoOrder({"NSE", "NFO"}, {"RELIANCE"})
    \/ GetFunds
    \/ GetPositions
    \/ GetOrderbook
    \/ GetTradebook
    \/ GetQuote(SampleSymbols)
    \/ GetHistory(SampleSymbols)
    \/ DownloadInstruments
    \/ GetInstruments
    \/ ConnectWebsocket
    \/ SymbolsToSubscribe(SampleSymbols)
    \/ ConnectOrderWebsocket
    \/ Return

Spec == Init /\ [][Next]_vars

----------------------------------------------------------------------------
(* The order operations alone, on every combination of the request fields *)

AllRequests ==
    OrderRequests({"RELIANCE", "NOTREAL"}, Exchanges, TransactionTypes,
                  {"MARKET", "LIMIT", "STOP_LIMIT"}, {"INTRADAY", "NRML"}, {"DAY", "TTL"},
                  {0, 10}, {-5, 0, 2500})
AllOrderIds == {"1001", "7777"}
AllUpdates ==
    [quantity : {Nothing, Some(5)}, price : {Nothing, Some(2600)}, trigger_price : {Nothing},
     order_type : {Nothing} \cup {Some(t) : t \in {"LIMIT", "STOP_LIMIT"}},
     validity : {Nothing} \cup {Some(v) : v \in {"DAY", "TTL"}}]

NextOrders ==
    \/ PlaceOrder(AllRequests)
    \/ CancelOrder(AllOrderIds)
    \/ ModifyOrder(AllOrderIds, AllUpdates)
    \/ PlaceGttOcoOrder({"NSE", "NFO"}, {"RELIANCE", "NOTREAL"})
    \/ Return

SpecOrders == Init /\ [][NextOrders]_vars

----------------------------------------------------------------------------
(* Construction and quotes, on qualified and unqualified symbols *)

QuoteSymbols ==
    QualifiedSymbols({"NSE", "BSE", "NFO", PyNone},
                     {"RELIANCE", "NIFTY 50", "NIFTYBEES", "NIFTY24DECFUT", "NOTREAL"})

\* market orders for instruments of each type of the master list
RoutedRequests ==
    OrderRequests({"RELIANCE", "NIFTYBEES", "NIFTY24DECFUT"}, {"NSE"}, {"BUY"}, {"MARKET"},
                  {"INTRADAY"}, {"DAY"}, {10}, {0})

NextQuotes ==
    \/ Construct
    \/ GetQuote(QuoteSymbols)
    \/ PlaceOrder(RoutedRequests)
    \/ DownloadInstruments
    \/ GetInstruments
    \/ Return

SpecQuotes == InitNew /\ [][NextQuotes]_vars

----------------------------------------------------------------------------
(* The resolver: the table, its cache file and _lookup_token *)

NextResolver ==
    \/ LookupToken(Symbols, ExchangeMembers)
    \/ LookupTokenTwice(Symbols, Exchanges)
    \/ DownloadInstruments
    \/ GetInstruments
    \/ Return

SpecResolver == Init /\ [][NextResolver]_vars

----------------------------------------------------------------------------
(* download_instruments statement by statement on one thread, while a second
   thread reads the table (_lookup_token) or the cache file (get_instruments
   of another driver instance of the same directory) *)

\* the table published before the columns are renamed
RefreshOrder_AssignFirst == <<"assign", "rename">>

\* lines 143-157: df.rename(..., inplace=True), then self.master_contract_df = df
RefreshOrder == <<"rename", "assign">>

\* line 133, df = pd.read_csv(url): the thread holds a DataFrame of its own, or
\* the exception takes it to the except clause
RefreshFetch ==
    /\ refresher = NoThread
    /\ \E fetch \in Fetches :
          refresher' = IF fetch.ok
                       THEN [pc |-> "building", done |-> 0, df |-> SourceDf(fetch.table),
                             old |-> master_contract_df, published |-> FALSE,
                             write_ok |-> fetch.write_ok]
                       ELSE [pc |-> "except"]
    /\ UNCHANGED <<env_creds, dhan, capabilities, registry, master_contract_df,
                   cache_file, feed, feeds_started, feed_threads, last, reader, tick_loop, backtest>>

\* df.rename(..., inplace=True): the one DataFrame object changes, also where
\* self.master_contract_df already refers to it
RefreshRename ==
    /\ refresher.pc = "building"
    /\ refresher.done < Len(RefreshOrder)
    /\ RefreshOrder[refresher.done + 1] = "rename"
    /\ refresher' = [refresher EXCEPT !.done = @ + 1, !.df = Df(refresher.df.rows)]
    /\ master_contract_df' = IF refresher.published
                              THEN Df(refresher.df.rows)
                              ELSE master_contract_df
    /\ UNCHANGED <<env_creds, dhan, capabilities, registry, cache_file, feed,
                   feeds_started, feed_threads, last, reader, tick_loop, backtest>>

\* self.master_contract_df = df
RefreshAssign ==
    /\ refresher.pc = "building"
    /\ refresher.done < Len(RefreshOrder)
    /\ RefreshOrder[refresher.done + 1] = "assign"
    /\ refresher' = [refresher EXCEPT !.done = @ + 1, !.published = TRUE]
    /\ master_contract_df' = refresher.df
    /\ UNCHANGED <<env_creds, dhan, capabilities, registry, cache_file, feed,
                   feeds_started, feed_threads, last, reader, tick_loop, backtest>>

\* lines 160-162: os.makedirs, then df.to_csv(cache_file) opens the cache file
\* itself for writing, which empties it; or one of them raises
RefreshOpenFile ==
    /\ refresher.pc = "building"
    /\ refresher.done = Len(RefreshOrder)
    /\ IF refresher.write_ok
       THEN /\ cache_file' = OpenFile(<<>>)
            /\ refresher' = [refresher EXCEPT !.pc = "writing"]
       ELSE /\ cache_file' = cache_file
            /\ refresher' = [pc |-> "except"]
    /\ UNCHANGED <<env_creds, dhan, capabilities, registry, master_contract_df, feed,
                   feeds_started, feed_threads, last, reader, tick_loop, backtest>>

\* to_csv writes the next row
RefreshWriteRow ==
    /\ refresher.pc = "writing"
    /\ Len(cache_file.rows) < Len(refresher.df.rows)
    /\ cache_file' = OpenFile(Append(cache_file.rows,
                                     refresher.df.rows[Len(cache_file.rows) + 1]))
    /\ UNCHANGED <<env_creds, dhan, capabilities, registry, master_contract_df, feed,
                   feeds_started, feed_threads, last, refresher, reader, tick_loop, backtest>>

\* to_csv has written every row and closes the file
RefreshClose ==
    /\ refresher.pc = "writing"
    /\ Len(cache_file.rows) = Len(refresher.df.rows)
    /\ cache_file' = File(cache_file.rows)
    /\ refresher' = [pc |-> "return"]
    /\ UNCHANGED <<env_creds, dhan, capabilities, registry, master_contract_df, feed,
                   feeds_started, feed_threads, last, reader, tick_loop, backtest>>

\* line 165 (the exception is printed) and the return of download_instruments
RefreshReturn ==
    /\ refresher.pc \in {"except", "return"}
    /\ refresher' = NoThread
    /\ UNCHANGED <<env_creds, dhan, capabilities, registry, master_contract_df,
                   cache_file, feed, feeds_started, feed_threads, last, reader, tick_loop, backtest>>

\* the tables a reader may be handed at this moment: the one the driver held
\* when the refresh under way began and the one that refresh fetched, each in
\* full and renamed; the driver's table when no refresh is under way
WholeTables ==
    IF refresher.pc \in {"building", "writing"}
    THEN {refresher.old, Df(refresher.df.rows)}
    ELSE {master_contract_df}

\* _lookup_token, lines 179-182: the attribute exists, df = self.master_contract_df
ReadTable(symbols, exchanges) ==
    /\ reader = NoThread
    /\ HasAttr(master_contract_df)
    /\ \E symbol \in symbols, exchange \in exchanges :
          reader' = [pc |-> "have_df", op |-> "lookup_token", symbol |-> symbol,
                     exchange |-> exchange, df |-> master_contract_df,
                     whole |-> WholeTables]
    /\ UNCHANGED <<env_creds, dhan, capabilities, registry, master_contract_df,
                   cache_file, feed, feeds_started, feed_threads, last, refresher, tick_loop, backtest>>

\* _lookup_token, lines 183-203, on the DataFrame the thread holds; a DataFrame
\* without a 'symbol' column raises KeyError
ReadMatch ==
    /\ reader.pc = "have_df"
    /\ reader' =
          IF reader.df.columns # "renamed"
          THEN [reader EXCEPT !.pc = "return"] @@ [raised |-> TRUE, token |-> PyNone]
          ELSE [reader EXCEPT !.pc = "return"] @@
               [raised |-> FALSE,
                token |-> lookup_token(reader.df, cache_file, reader.symbol,
                                       reader.exchange, FetchFails).token]
    /\ UNCHANGED <<env_creds, dhan, capabilities, registry, master_contract_df,
                   cache_file, feed, feeds_started, feed_threads, last, refresher, tick_loop, backtest>>

\* get_instruments of a driver instance that has no table yet, lines 171-174:
\* the cache file exists and pd.read_csv reads what it holds now
ReadCacheFile ==
    /\ reader = NoThread
    /\ cache_file.exists
    /\ reader' = [pc |-> "return", op |-> "get_instruments", file |-> cache_file]
    /\ UNCHANGED <<env_creds, dhan, capabilities, registry, master_contract_df,
                   cache_file, feed, feeds_started, feed_threads, last, refresher, tick_loop, backtest>>

\* the reader's operation returns
ReaderReturn ==
    /\ reader.pc = "return"
    /\ reader' = NoThread
    /\ UNCHANGED <<env_creds, dhan, capabilities, registry, master_contract_df,
                   cache_file, feed, feeds_started, feed_threads, last, refresher, tick_loop, backtest>>

NextRefresh ==
    \/ RefreshFetch
    \/ RefreshRename
    \/ RefreshAssign
    \/ RefreshOpenFile
    \/ RefreshWriteRow
    \/ RefreshClose
    \/ RefreshReturn
    \/ ReadTable({"RELIANCE", "NOTREAL"}, Exchanges)
    \/ ReadMatch
    \/ ReadCacheFile
    \/ ReaderReturn

SpecRefresh == Init /\ [][NextRefresh]_vars

----------------------------------------------------------------------------
(* Streaming: the feed, its threads and the subscriptions *)

NextStreaming ==
    \/ ConnectWebsocket
    \/ ConnectOrderWebsocket
    \/ SymbolsToSubscribe(SampleSymbols)
    \/ DownloadInstruments
    \/ Return

SpecStreaming == Init /\ [][NextStreaming]_vars

----------------------------------------------------------------------------
(* The life of the feed threads: connections are lost and the caller asks for
   the streaming to stop *)

\* the connection of a running feed drops and its run_forever ends: the thread
\* started on lines 547-549 has run_forever as its whole target, with no loop
\* and no handler around it, so the thread ends with it; self._feed stays
ConnectionLost ==
    /\ \E i \in 1..Len(feed_threads) :
          /\ feed_threads[i].state = "running"
          /\ feed_threads' = [feed_threads EXCEPT ![i].state = "ended"]
    /\ UNCHANGED <<env_creds, dhan, capabilities, registry, master_contract_df,
                   cache_file, feed, feeds_started, last, refresher, reader, tick_loop, backtest>>

\* the caller asks for the streaming to stop. DhanDriver has no method that
\* stops, closes or disconnects the feed, and keeps the thread as a daemon:
\* the request changes nothing of the driver
StopRequested ==
    /\ last = Idle
    /\ HasAttr(feed)
    /\ last' = [op |-> "stop", args |-> [none |-> TRUE], raised |-> FALSE,
                result |-> PyNoneResult, calls |-> <<>>]
    /\ UNCHANGED <<env_creds, dhan, capabilities, registry, master_contract_df,
                   cache_file, feed, feeds_started, feed_threads, refresher, reader, tick_loop, backtest>>

NextFeedLife ==
    \/ ConnectWebsocket
    \/ SymbolsToSubscribe(SampleSymbols)
    \/ ConnectionLost
    \/ StopRequested
    \/ Return

\* the caller's thread goes on after each call; nothing else is bound to happen
SpecFeedLife == Init /\ [][NextFeedLife]_vars /\ WF_vars(Return)

----------------------------------------------------------------------------
(* The tick loop of strategy/oi_strategy.py: the websocket thread hands tick
   batches to a queue, the main thread takes and processes them *)

MaxTicks == 4

\* the variables of the driver, which the strategy loop and the backtest leave alone
driver_vars == <<env_creds, dhan, capabilities, registry, master_contract_df, cache_file,
                 feed, feeds_started, feed_threads, last, refresher, reader>>

\* a batch as the websocket delivers it: a list with a tick in it, or an empty
\* list, on which tick_data[0] raises IndexError
TickBatches == {"ticks", "empty"}

\* DataDispatcher.dispatch(ticks): the batch is put at the end of the main
\* queue, the unbounded Queue() of line 190
dispatch(queue, batch) == Append(queue, batch)

\* how processing one batch can end: on_ticks_update returns, or an Exception
\* is raised by tick_data[0] or inside on_ticks_update
ProcessOutcomes(batch) == IF batch.shape = "empty" THEN {"exception"} ELSE {"ok", "exception"}

\* an Exception of one tick that ends the loop
AfterException_Propagates == "done"

\* lines 222-225: the Exception is logged and the loop continues with the next get
AfterException == "get"

\* line 213 reached: the queue is registered and empty, the loop is about to get
InitTickLoop ==
    /\ env_creds = TRUE
    /\ dhan = TRUE
    /\ capabilities = InitialCapabilities
    /\ registry = TotalRegistry
    /\ master_contract_df = NoAttr
    /\ cache_file = NoFile
    /\ feed = NoAttr
    /\ feeds_started = 0
    /\ feed_threads = <<>>
    /\ last = Idle
    /\ refresher = NoThread
    /\ reader = NoThread
    /\ tick_loop = [pc |-> "get", queue |-> <<>>, put |-> 0, tick_data |-> <<>>,
                    processed |-> <<>>, shutdown |-> FALSE]
    /\ backtest = NoThread

\* on_ticks, lines 192-194, on the websocket thread: the batch is dispatched
OnTicks ==
    /\ tick_loop.pc # "none"
    /\ tick_loop.put < MaxTicks
    /\ \E shape \in TickBatches :
          tick_loop' = [tick_loop EXCEPT
                           !.put = @ + 1,
                           !.queue = dispatch(@, [id |-> tick_loop.put + 1, shape |-> shape])]
    /\ UNCHANGED <<driver_vars, backtest>>

\* line 215: get() returns the oldest batch; it blocks while the queue is empty
LoopGet ==
    /\ tick_loop.pc = "get"
    /\ tick_loop.queue # <<>>
    /\ tick_loop' = [tick_loop EXCEPT !.pc = "process",
                                      !.tick_data = <<Head(tick_loop.queue)>>,
                                      !.queue = Tail(@)]
    /\ UNCHANGED <<driver_vars, backtest>>

\* lines 216-217 and 222-225: the batch in hand is processed
LoopProcess ==
    /\ tick_loop.pc = "process"
    /\ \E outcome \in ProcessOutcomes(tick_loop.tick_data[1]) :
          tick_loop' = [tick_loop EXCEPT
                           !.pc = IF outcome = "exception" THEN AfterException ELSE "get",
                           !.tick_data = <<>>,
                           !.processed = Append(@, [id |-> tick_loop.tick_data[1].id,
                                                    outcome |-> outcome])]
    /\ UNCHANGED <<driver_vars, backtest>>

\* lines 219-221: KeyboardInterrupt in the main thread, inside get() or while a
\* batch is processed: the loop breaks
KeyboardInterrupt ==
    /\ tick_loop.pc \in {"get", "process"}
    /\ tick_loop' = [tick_loop EXCEPT !.pc = "done", !.shutdown = TRUE]
    /\ UNCHANGED <<driver_vars, backtest>>

NextTickLoop ==
    \/ OnTicks
    \/ LoopGet
    \/ LoopProcess
    \/ KeyboardInterrupt

\* the main thread keeps running: a get on a queue that is not empty returns,
\* and the processing of a batch returns or raises
SpecTickLoop ==
    InitTickLoop /\ [][NextTickLoop]_vars /\ WF_vars(LoopGet) /\ WF_vars(LoopProcess)

----------------------------------------------------------------------------
(* SurvivorBacktest (backtest_survivor.py), on integer prices *)

MaxPrice == 8
MaxSteps == 3

\* the closes of the bars
Prices == 0..MaxPrice

\* params, lines 9-14: positive gaps; the defaults 20, 20, 30, 30 on the scale
\* of Prices, and two settings with unequal legs
GapParams ==
    {[pe_gap |-> 2, ce_gap |-> 2, pe_reset_gap |-> 3, ce_reset_gap |-> 3],
     [pe_gap |-> 1, ce_gap |-> 2, pe_reset_gap |-> 3, ce_reset_gap |-> 1],
     [pe_gap |-> 3, ce_gap |-> 1, pe_reset_gap |-> 1, ce_reset_gap |-> 2]}

\* int(a / b): the quotient truncated towards zero
IntQuotient(a, b) == IF a >= 0 THEN a \div b ELSE -((-a) \div b)

\* one gap per signal, however far the price moved
SellMultiplier_One(price_diff, gap) == 1

\* lines 31 and 41: sell_multiplier = int(price_diff / gap)
SellMultiplier(price_diff, gap) == IntQuotient(price_diff, gap)

\* __init__, lines 16-23, with the strategy's parameters p and the close c that
\* self.nifty.close[0] yields while the strategy is constructed
SurvivorBacktest(p, c) ==
    [pc |-> "run", p |-> p, current_price |-> c,
     nifty_pe_last_value |-> c, nifty_ce_last_value |-> c,
     pe_reset_gap_flag |-> 0, ce_reset_gap_flag |-> 0,
     pe_signals |-> 0, ce_signals |-> 0, steps |-> 0,
     did |-> [pe_signal |-> FALSE, ce_signal |-> FALSE, pe_reset |-> FALSE, ce_reset |-> FALSE]]

\* lines 28-36: the PE leg
PeLeg(b, current_price) ==
    LET price_diff_pe == current_price - b.nifty_pe_last_value
    IN  IF price_diff_pe > b.p.pe_gap
        THEN [b EXCEPT !.nifty_pe_last_value =
                           @ + b.p.pe_gap * SellMultiplier(price_diff_pe, b.p.pe_gap),
                       !.pe_signals = @ + 1,
                       !.pe_reset_gap_flag = 1,
                       !.did.pe_signal = TRUE]
        ELSE b

\* lines 38-46: the CE leg
CeLeg(b, current_price) ==
    LET price_diff_ce == b.nifty_ce_last_value - current_price
    IN  IF price_diff_ce > b.p.ce_gap
        THEN [b EXCEPT !.nifty_ce_last_value =
                           @ - b.p.ce_gap * SellMultiplier(price_diff_ce, b.p.ce_gap),
                       !.ce_signals = @ + 1,
                       !.ce_reset_gap_flag = 1,
                       !.did.ce_signal = TRUE]
        ELSE b

\* lines 49-51: the reset of the PE reference
PeReset(b, current_price) ==
    IF (b.nifty_pe_last_value - current_price) > b.p.pe_reset_gap /\ b.pe_reset_gap_flag # 0
    THEN [b EXCEPT !.nifty_pe_last_value = current_price + b.p.pe_reset_gap,
                   !.did.pe_reset = TRUE]
    ELSE b

\* lines 53-55: the reset of the CE reference
CeReset(b, current_price) ==
    IF (current_price - b.nifty_ce_last_value) > b.p.ce_reset_gap /\ b.ce_reset_gap_flag # 0
    THEN [b EXCEPT !.nifty_ce_last_value = current_price - b.p.ce_reset_gap,
                   !.did.ce_reset = TRUE]
    ELSE b

\* next(), lines 25-55, on the bar whose close is current_price
next(b, current_price) ==
    LET start == [b EXCEPT !.current_price = current_price,
                           !.steps = @ + 1,
                           !.did = [pe_signal |-> FALSE, ce_signal |-> FALSE,
                                    pe_reset |-> FALSE, ce_reset |-> FALSE]]
    IN  CeReset(PeReset(CeLeg(PeLeg(start, current_price), current_price),
                        current_price),
                current_price)

\* the strategy constructed: the close read in __init__ is whichever bar
\* backtrader's line buffer yields before the first bar is delivered
InitBacktest ==
    /\ env_creds = TRUE
    /\ dhan = TRUE
    /\ capabilities = InitialCapabilities
    /\ registry = TotalRegistry
    /\ master_contract_df = NoAttr
    /\ cache_file = NoFile
    /\ feed = NoAttr
    /\ feeds_started = 0
    /\ feed_threads = <<>>
    /\ last = Idle
    /\ refresher = NoThread
    /\ reader = NoThread
    /\ tick_loop = NoThread
    /\ backtest \in {SurvivorBacktest(p, c) : p \in GapParams, c \in Prices}

\* backtrader delivers the next bar
BacktestNext ==
    /\ backtest.pc = "run"
    /\ backtest.steps < MaxSteps
    /\ \E current_price \in Prices : backtest' = next(backtest, current_price)
    /\ UNCHANGED <<driver_vars, tick_loop>>

SpecBacktest == InitBacktest /\ [][BacktestNext]_vars

----------------------------------------------------------------------------
(* Claims *)

\* the calls of the last operation made to the given api
CallsTo(api) == SelectSeq(last.calls, LAMBDA c : c.api = api)

\* an error or empty result, by the type of the result
ErrorOrEmpty(result) ==
    CASE result.type = "OrderResponse" -> result.status = "error"
      [] result.type = "Funds" ->
            /\ result.equity = 0 /\ result.available_cash = 0
            /\ result.used_margin = 0 /\ result.net = 0
      [] result.type = "list" -> result.items = <<>>
      [] result.type = "Quote" -> result.last_price = 0
      [] result.type = "None" -> TRUE
      [] OTHER -> FALSE

ShortCircuitedOps ==
    {"get_funds", "get_positions", "place_order", "modify_order", "cancel_order",
     "get_orderbook", "get_tradebook", "place_gtt_oco_order", "get_quote", "get_history",
     "connect_websocket", "symbols_to_subscribe", "connect_order_websocket"}

\* C1: on a driver without a client (_dhan is None) every one of the thirteen
\* operations, after any sequence of them, returns an error or empty result
\* without raising and without a single network call (broker, master list or
\* stream), and creates no feed.
C1_UnauthenticatedShortCircuit ==
    (~dhan /\ last.op \in ShortCircuitedOps) =>
        /\ ~last.raised
        /\ ErrorOrEmpty(last.result)
        /\ last.calls = <<>>
        /\ feed = NoAttr /\ feeds_started = 0

\* C1 witness: an order was placed on a driver whose environment holds the
\* credentials but whose client could not be built
C1_Witness ==
    /\ ~dhan /\ env_creds
    /\ last.op = "place_order"
    /\ last.result.message = "unauthenticated"

\* C2: place_order on an authenticated driver with quantity <= 0 or price < 0
\* returns an error response and issues no order-placement call.
C2_ValidationBeforeNetwork ==
    (/\ last.op = "place_order" /\ dhan
     /\ (last.args.request.quantity <= 0 \/ last.args.request.price < 0)) =>
        /\ last.result.status = "error"
        /\ CallsTo("place_order") = <<>>

\* the enums of a request that the registry cannot translate
HasUnmappedEnum(request) ==
    \/ ~Mapped(registry.order_type, request.order_type)
    \/ ~Mapped(registry.product_type, request.product_type)
    \/ ~Mapped(registry.transaction_type, request.transaction_type)
    \/ ~Mapped(registry.validity, request.validity)

\* the symbol of a request has no row in the table the driver holds after the call
AbsentFromMaster(request) ==
    \/ ~HasAttr(master_contract_df)
    \/ \A i \in 1..Len(master_contract_df.rows) :
          ~(/\ master_contract_df.rows[i].symbol = request.symbol
            /\ master_contract_df.rows[i].exchange_id = request.exchange)

\* C3: a placement call is issued only with a security id resolved from the
\* master table and with all four enums translated to their dhan values; when
\* the symbol is absent or an enum has no dhan mapping, place_order returns
\* status error with order_id None and issues no placement call.
C3_ResolveAndTranslateBeforePlacement ==
    last.op = "place_order" =>
        LET request == last.args.request
            placed == CallsTo("place_order")
        IN  /\ \A i \in 1..Len(placed) :
                  /\ ~HasUnmappedEnum(request)
                  /\ ~AbsentFromMaster(request)
                  /\ placed[i].args.security_id # PyNone
                  /\ \E r \in 1..Len(master_contract_df.rows) :
                        /\ master_contract_df.rows[r].symbol = request.symbol
                        /\ master_contract_df.rows[r].exchange_id = request.exchange
                        /\ master_contract_df.rows[r].token = placed[i].args.security_id
                  /\ placed[i].args.order_type = registry.order_type[request.order_type]
                  /\ placed[i].args.product_type = registry.product_type[request.product_type]
                  /\ placed[i].args.transaction_type = registry.transaction_type[request.transaction_type]
                  /\ placed[i].args.validity = registry.validity[request.validity]
            /\ (HasUnmappedEnum(request) \/ AbsentFromMaster(request)) =>
                  /\ last.result.status = "error"
                  /\ last.result.order_id = PyNone
                  /\ placed = <<>>

\* C3 witness: an authenticated placement failed on an unknown symbol after the
\* table was fetched, and no placement call went out
C3_Witness ==
    /\ last.op = "place_order" /\ dhan
    /\ ~HasUnmappedEnum(last.args.request)
    /\ HasAttr(master_contract_df) /\ master_contract_df.rows # <<>>
    /\ AbsentFromMaster(last.args.request)
    /\ last.result.message = "Symbol not found in master"
    /\ Len(last.calls) = 1 /\ last.calls[1].chan = "master"

\* C4: place_order, modify_order and cancel_order never raise: whatever the
\* input, the broker client and the resolution do, each returns an
\* OrderResponse whose status is ok or error.
C4_NoExceptionFromOrderOps ==
    last.op \in {"place_order", "modify_order", "cancel_order"} =>
        /\ ~last.raised
        /\ last.result.type = "OrderResponse"
        /\ last.result.status \in {"ok", "error"}

\* C4 witness: the broker client raised inside a placement call that was issued
C4_Witness ==
    /\ last.op = "place_order"
    /\ CallsTo("place_order") # <<>>
    /\ last.result.message = "str(e)"
    /\ last.result.status = "error"

\* C5: for a LIMIT order with a valid price (>= 0) that reaches the broker, the
\* price of the placement call equals request.price.
C5_LimitPriceSentExactly ==
    (/\ last.op = "place_order"
     /\ last.args.request.order_type = "LIMIT"
     /\ last.args.request.price >= 0) =>
        \A i \in 1..Len(CallsTo("place_order")) :
            CallsTo("place_order")[i].args.price = last.args.request.price

\* C5 witness: a LIMIT order at 2500 reached the broker and was accepted
C5_Witness ==
    /\ last.op = "place_order"
    /\ last.args.request.order_type = "LIMIT"
    /\ last.args.request.price = 2500
    /\ Len(CallsTo("place_order")) = 1
    /\ last.result.status = "ok"

\* C6: for every order type other than LIMIT the price of the placement call
\* is 0, whatever request.price is.
C6_NonLimitPriceZero ==
    (last.op = "place_order" /\ last.args.request.order_type # "LIMIT") =>
        \A i \in 1..Len(CallsTo("place_order")) :
            CallsTo("place_order")[i].args.price = 0

\* C6 witness: a stop order with request.price 2500 reached the broker
C6_Witness ==
    /\ last.op = "place_order"
    /\ last.args.request.order_type = "STOP_LIMIT"
    /\ last.args.request.price = 2500
    /\ Len(CallsTo("place_order")) = 1

\* C7: for every response of place_order an order id is present iff status is
\* ok: an error response has order_id None, and an ok response carries the
\* order id the broker assigned, never an absent or placeholder id.
C7_OrderIdIffOk ==
    last.op = "place_order" =>
        /\ last.result.status = "error" => last.result.order_id = PyNone
        /\ last.result.status = "ok" =>
              /\ last.result.order_id # PyNone
              /\ last.result.raw.payload.orderId # PyNone
              /\ last.result.order_id = last.result.raw.payload.orderId

\* C8: modify_order and cancel_order return the order_id they were given, on
\* every path: unauthenticated, success, rejection and exception.
C8_OrderIdEchoed ==
    last.op \in {"modify_order", "cancel_order"} =>
        last.result.order_id = last.args.order_id

\* C8 witness: a cancel whose broker call raised
C8_Witness ==
    /\ last.op = "cancel_order"
    /\ last.calls # <<>>
    /\ last.result.message = "str(e)"
    /\ last.result.order_id = last.args.order_id

\* C9: raw is populated in every OrderResponse of place_order, modify_order,
\* cancel_order and place_gtt_oco_order, the local failures included.
C9_RawAlwaysPopulated ==
    last.op \in {"place_order", "modify_order", "cancel_order", "place_gtt_oco_order"} =>
        last.result.raw.populated

\* an enum value of updates that is present and has no dhan mapping
UnmappedUpdate(table, o) == IsSome(o) /\ ~Mapped(table, TheValue(o))

\* C10: when the updates of modify_order hold an order_type or validity with no
\* dhan mapping, the operation returns an error and the untranslated value is
\* not sent to the broker; absent fields are passed on as they are.
C10_MissingMappingSurfaced ==
    (last.op = "modify_order" /\ dhan) =>
        LET updates == last.args.updates
            sent == CallsTo("modify_order")
        IN  /\ (\/ UnmappedUpdate(registry.order_type, updates.order_type)
                \/ UnmappedUpdate(registry.validity, updates.validity)) =>
                  /\ last.result.status = "error"
                  /\ \A i \in 1..Len(sent) :
                        /\ UnmappedUpdate(registry.order_type, updates.order_type)
                              => sent[i].args.order_type # updates.order_type
                        /\ UnmappedUpdate(registry.validity, updates.validity)
                              => sent[i].args.validity # updates.validity
            /\ \A i \in 1..Len(sent) :
                  /\ ~IsSome(updates.order_type) => sent[i].args.order_type = Nothing
                  /\ ~IsSome(updates.validity) => sent[i].args.validity = Nothing
                  /\ sent[i].args.quantity = updates.quantity
                  /\ sent[i].args.price = updates.price
                  /\ sent[i].args.trigger_price = updates.trigger_price

\* C11: DhanDriver() never raises, whether the credentials are absent or the
\* build of the client fails; in both cases the driver has no client, and
\* get_quote on a driver without a client returns, without raising and without
\* a network call, a Quote on NSE with last_price 0 and raw
\* {"error": "unauthenticated"}.
C11_ConstructionNeverFails ==
    /\ last.op = "DhanDriver" =>
          /\ ~last.raised
          /\ capabilities = InitialCapabilities
          /\ (~env_creds \/ last.args.client_init # "ok") => ~dhan
    /\ (last.op = "get_quote" /\ ~dhan) =>
          /\ ~last.raised
          /\ last.calls = <<>>
          /\ last.result = Quote(last.args.symbol, "NSE", 0, Raw(ErrorDict("unauthenticated")))

\* C11 witness: get_quote("NSE:NIFTY 50") answered with last_price 0 by a driver
\* that was constructed without a client
C11_Witness ==
    /\ ~dhan
    /\ capabilities = InitialCapabilities
    /\ last.op = "get_quote"
    /\ last.args.symbol = [prefix |-> "NSE", name |-> "NIFTY 50"]
    /\ last.result.last_price = 0
    /\ last.result.raw.payload = ErrorDict("unauthenticated")

\* the raw of a Quote that reports a failure: an error dict, or an answer of the
\* broker whose status is not "success"
FailurePayload(payload) ==
    IF "error" \in DOMAIN payload THEN TRUE ELSE payload.status # "success"

\* C12: get_quote never raises and always returns a Quote with raw populated.
\* On every failure path the Quote has last_price 0 and the failure in raw: no
\* client ({"error": "unauthenticated"}), no broker call because the symbol was
\* not found or the resolution raised (an error dict), the client raised (an
\* error dict), the broker answered with a status other than success (the answer).
C12_GetQuoteNeverRaises ==
    last.op = "get_quote" =>
        /\ ~last.raised
        /\ last.result.type = "Quote"
        /\ last.result.raw.populated
        /\ ~dhan => last.result.raw.payload = ErrorDict("unauthenticated")
        /\ CallsTo("get_quote") = <<>> => "error" \in DOMAIN last.result.raw.payload
        /\ FailurePayload(last.result.raw.payload) => last.result.last_price = 0
        /\ ~FailurePayload(last.result.raw.payload) => Len(CallsTo("get_quote")) = 1

\* C12 witness: the client raised inside get_quote and the caller got a Quote
\* with last_price 0 and the exception text in raw
C12_Witness ==
    /\ dhan
    /\ last.op = "get_quote"
    /\ ~last.raised
    /\ Len(CallsTo("get_quote")) = 1
    /\ last.result.raw.payload = ErrorDict("str(e)")
    /\ last.result.last_price = 0

\* the security ids the table holds for exactly this symbol on this exchange
SecurityIds(rows, symbol, exchange) ==
    {rows[i].token : i \in {j \in 1..Len(rows) :
                              rows[j].symbol = symbol /\ rows[j].exchange_id = exchange}}

\* C13: on a driver with a client whose table in memory maps (symbol, exchange)
\* to the security id s, get_quote("EXCH:symbol") calls the broker once, with
\* security id s, and when the broker answers success with a last_price the
\* Quote returned carries that last_price.
C13_ResolveThenQuote ==
    (/\ last.op = "get_quote"
     /\ dhan
     /\ HasAttr(master_contract_df)
     /\ last.args.symbol.prefix # PyNone
     /\ SecurityIds(master_contract_df.rows, last.args.symbol.name,
                    last.args.symbol.prefix) # {}) =>
        /\ Len(CallsTo("get_quote")) = 1
        /\ {CallsTo("get_quote")[1].args.security_id} =
               SecurityIds(master_contract_df.rows, last.args.symbol.name,
                           last.args.symbol.prefix)
        /\ (/\ ~FailurePayload(last.result.raw.payload)
            /\ last.result.raw.payload.has_price) =>
               last.result.last_price = last.result.raw.payload.last_price

\* C13 witness: get_quote("NSE:NIFTY 50") asked the broker for security id 13
\* and returned the last_price 19500 of its answer
C13_Witness ==
    /\ last.op = "get_quote"
    /\ last.args.symbol = [prefix |-> "NSE", name |-> "NIFTY 50"]
    /\ Len(CallsTo("get_quote")) = 1
    /\ CallsTo("get_quote")[1].args.security_id = "13"
    /\ last.result.last_price = 19500

\* str.upper() on the symbols of the model
Upper(symbol) == IF symbol = "reliance" THEN "RELIANCE" ELSE symbol

\* the security ids the table holds for the symbol, letter case ignored, on
\* this exchange
SecurityIdsAnyCase(rows, symbol, exchange) ==
    {rows[i].token : i \in {j \in 1..Len(rows) :
                              /\ Upper(rows[j].symbol) = Upper(symbol)
                              /\ rows[j].exchange_id = exchange}}

\* C14: _lookup_token returns None and does not raise for every (symbol,
\* exchange) that no table entry matches, whether the table is loaded, empty,
\* or missing because the implicit download of this call failed.
C14_AbsentIsNotFound ==
    (/\ last.op = "lookup_token"
     /\ \/ ~HasAttr(master_contract_df)
        \/ SecurityIdsAnyCase(master_contract_df.rows, last.args.symbol,
                              last.args.exchange) = {}) =>
        /\ ~last.raised
        /\ last.result.token = PyNone

\* C15: a _lookup_token that starts without a table in memory loads the table
\* from the cache file when the file exists, without a network fetch; it
\* fetches the master list over the network only when there is neither a
\* table in memory nor a cache file.
C15_CacheBeforeNetwork ==
    [][last'.op = "lookup_token" =>
          /\ (~HasAttr(master_contract_df) /\ cache_file.exists) =>
                /\ master_contract_df' = Df(cache_file.rows)
                /\ SelectSeq(last'.calls, LAMBDA c : c.chan = "master") = <<>>
          /\ SelectSeq(last'.calls, LAMBDA c : c.chan = "master") # <<>> =>
                (~HasAttr(master_contract_df) /\ ~cache_file.exists)]_vars

\* what _lookup_token answers on this table, whatever a fetch would do
Resolved(mcdf, cache, symbol, exchange, fetch) ==
    LET lk == lookup_token(mcdf, cache, symbol, exchange, fetch)
    IN  [raised |-> lk.raised, token |-> lk.token]

\* C16: a download_instruments whose fetch or parse of the master list fails
\* does not raise, leaves master_contract_df as it was, and every
\* _lookup_token after it answers as it would have before it.
C16_FailedRefreshKeepsTable ==
    [][(last'.op = "download_instruments" /\ ~last'.args.fetch.ok) =>
          /\ ~last'.raised
          /\ master_contract_df' = master_contract_df
          /\ \A symbol \in Symbols, exchange \in ExchangeMembers, fetch \in Fetches :
                Resolved(master_contract_df', cache_file', symbol, exchange, fetch)
                    = Resolved(master_contract_df, cache_file, symbol, exchange, fetch)]_vars

\* C16 witness: a download_instruments failed on its fetch while the driver
\* held the table with RELIANCE and NIFTY 50, and the driver still holds it
C16_Witness ==
    /\ last.op = "download_instruments"
    /\ ~last.args.fetch.ok
    /\ ~last.raised
    /\ master_contract_df = Df(TableA)

\* C19: two _lookup_token calls in a row with the same (symbol, exchange)
\* end the same way, from every state of the driver, the one without a table
\* in memory included.
C19_ResolveTwiceSame ==
    last.op = "lookup_token_twice" => last.result.first = last.result.second

\* C20: with a table in memory, _lookup_token returns the security id of the
\* entry whose symbol equals the requested one ignoring letter case and whose
\* exchange is the requested one, and None when there is no such entry.
C20_CaseInsensitiveExactMatch ==
    (last.op = "lookup_token" /\ HasAttr(master_contract_df)) =>
        LET ids == SecurityIdsAnyCase(master_contract_df.rows, last.args.symbol,
                                      last.args.exchange)
        IN  IF ids = {} THEN last.result.token = PyNone ELSE last.result.token \in ids

\* C17: the DataFrame a thread inside _lookup_token holds, taken while another
\* thread may be anywhere inside download_instruments, is a whole table with
\* renamed columns: the one the driver held before that refresh or the one the
\* refresh fetched; the match on it does not raise.
C17_AtomicRefresh ==
    (reader.pc # "none" /\ reader.op = "lookup_token") =>
        /\ reader.df.columns = "renamed"
        /\ reader.df.rows \in Tables
        /\ reader.df \in reader.whole
        /\ reader.pc = "return" => ~reader.raised

\* C17 witness: the reader resolved RELIANCE on the table the refresh had just
\* assigned, while the refresh was still writing the cache file, after the
\* driver had held another table
C17_Witness ==
    /\ reader.pc = "return" /\ reader.op = "lookup_token"
    /\ refresher.pc = "writing"
    /\ refresher.old = Df(TableA)
    /\ reader.df = Df(TableB)
    /\ reader.symbol = "RELIANCE" /\ reader.token = "2886"

\* C18: what a reader of the cache file finds while a refresh may be anywhere
\* inside download_instruments is a file written in full, never an emptied or
\* half-written one.
C18_CacheFileWrittenAtomically ==
    (reader.pc # "none" /\ reader.op = "get_instruments") => reader.file.complete

\* the rows of the table for exactly this symbol on this exchange
RowsFor(rows, symbol, exchange) ==
    SelectSeq(rows, LAMBDA r : r.symbol = symbol /\ r.exchange_id = exchange)

\* the NSE segment an instrument type of the master list stands for
SegmentOfType(instrument_type) ==
    CASE instrument_type = "EQUITY" -> "NSE_EQ"
      [] instrument_type = "INDEX" -> "IDX_I"
      [] OTHER -> "NSE_FNO"

\* C21: when the row of the master list that a place_order or get_quote on NSE
\* resolved carries an instrument type, the exchange segment sent to the broker
\* is the one of that type, whatever the symbol looks like; the symbol
\* heuristic decides only for rows without an instrument type.
C21_InstrumentTypeOverridesHeuristic ==
    \A api \in {"place_order", "get_quote"} :
        (/\ last.op = api
         /\ CallsTo(api) # <<>>
         /\ HasAttr(master_contract_df)) =>
            LET symbol == IF api = "place_order" THEN last.args.request.symbol
                          ELSE last.args.symbol.name
                exchange == IF api = "place_order" THEN last.args.request.exchange
                            ELSE QuoteExchange(last.args.symbol)
                rows == RowsFor(master_contract_df.rows, symbol, exchange)
            IN  (exchange = "NSE" /\ rows # <<>> /\ rows[1].instrument_type # PyNone) =>
                    CallsTo(api)[1].args.exchange_segment = SegmentOfType(rows[1].instrument_type)

\* C22: no operation of the driver changes driver.capabilities: every step
\* leaves the record as __init__ built it.
C22_CapabilitiesFixed ==
    [][capabilities' = capabilities /\ capabilities' = InitialCapabilities]_vars

\* C22 witness: the driver has loaded a table, connected a feed and had an
\* order accepted, and its capabilities are those of __init__
C22_Witness ==
    /\ HasAttr(master_contract_df)
    /\ HasAttr(feed)
    /\ last.op = "place_order"
    /\ last.result.status = "ok"
    /\ capabilities = InitialCapabilities

\* the positions of the list whose symbol the table in memory resolves
ResolvingAt(symbols) ==
    {i \in 1..Len(symbols) :
        /\ HasAttr(master_contract_df)
        /\ MatchingRows(master_contract_df.rows, symbols[i].name,
                        SubscribeExchange(symbols[i])) # <<>>}

\* the (segment, security id) pairs of the symbols that resolve
ResolvingPairs(symbols) ==
    {<<get_exchange_segment(SubscribeExchange(symbols[i]), symbols[i].name),
       Str(MatchingRows(master_contract_df.rows, symbols[i].name,
                        SubscribeExchange(symbols[i]))[1].token)>> : i \in ResolvingAt(symbols)}

\* C23: symbols_to_subscribe on a driver with a feed raises nothing, leaves
\* every symbol that resolves subscribed, asks the feed for exactly those
\* symbols, and records one warning for each symbol it drops.
C23_SubscribeDropsBadSymbols ==
    (last.op = "symbols_to_subscribe" /\ HasAttr(feed)) =>
        /\ ~last.raised
        /\ ResolvingPairs(last.args.symbols) \subseteq feed.subscribed
        /\ \A i \in 1..Len(CallsTo("subscribe_symbols")) :
              {CallsTo("subscribe_symbols")[i].args.sub_list[j] :
                  j \in 1..Len(CallsTo("subscribe_symbols")[i].args.sub_list)}
                 = ResolvingPairs(last.args.symbols)
        /\ Len(last.result.warnings)
              = Len(last.args.symbols) - Cardinality(ResolvingAt(last.args.symbols))

\* C24: connect_websocket returns to its caller while run_forever runs on a
\* background thread of its own: the call does not raise, the caller is not
\* held inside run_forever, and the feed it created has a running background
\* thread. On a driver without client or credentials the call creates no
\* feed, starts no thread and makes no connection attempt.
C24_ConnectDoesNotBlock ==
    last.op = "connect_websocket" =>
        /\ ~last.raised
        /\ ~CallerBlocked
        /\ CallsTo("run_forever") # <<>> =>
              /\ Len(CallsTo("run_forever")) = 1
              /\ HasAttr(feed)
              /\ feed.id = CallsTo("run_forever")[1].args.feed_id
              /\ feed_threads[feed.id] = [state |-> "running", context |-> "background"]
        /\ (~dhan \/ ~env_creds) =>
              /\ feed = NoAttr
              /\ feed_threads = <<>>
              /\ last.calls = <<>>

\* C24 witness: connect_websocket has returned and the thread of the feed it
\* created is running in the background
C24_Witness ==
    /\ last.op = "connect_websocket"
    /\ ~last.raised
    /\ HasAttr(feed)
    /\ Len(CallsTo("run_forever")) = 1
    /\ feed_threads[feed.id].state = "running"

\* the feed threads that are running
RunningThreads == {i \in 1..Len(feed_threads) : feed_threads[i].state = "running"}

\* C25: after any sequence of connect_websocket and connect_order_websocket
\* calls the driver has at most one running feed thread, and it is the thread
\* of the feed the driver refers to, on which the callbacks are registered.
C25_OneConnectionPerDriver ==
    /\ Cardinality(RunningThreads) <= 1
    /\ RunningThreads # {} => (HasAttr(feed) /\ RunningThreads = {feed.id})

\* the sets of (segment, security id) pairs a feed may be subscribed to
SubscriptionSets == SUBSET {<<"NSE_EQ", "2885">>, <<"NSE_EQ", "2886">>}

\* C26: whenever the connection of the driver's feed is lost while the feed is
\* subscribed to a set of symbols, the driver's feed is eventually connected
\* again and subscribed to that same set.
C26_ReconnectResubscribes ==
    \A S \in SubscriptionSets :
        (/\ HasAttr(feed)
         /\ feed_threads[feed.id].state = "ended"
         /\ feed.subscribed = S)
        ~> (/\ HasAttr(feed)
            /\ feed_threads[feed.id].state = "running"
            /\ feed.subscribed = S)

\* C27: once the caller has asked for the streaming to stop, eventually no
\* feed thread is running.
C27_StopTerminatesThread ==
    (last.op = "stop") ~> (RunningThreads = {})

\* the wire values of a position that lines 101-113 name a mapping for
MappedSegments == {"NSE_EQ", "BSE_EQ", "MCX_COMM"}
MappedProducts == {"CNC", "MARGIN", "INTRADAY", "BIT"}

\* C28: a position of get_positions whose productType has no known mapping is
\* not reported with the product type INTRADAY, and one whose exchangeSegment
\* has no known mapping is not reported with the exchange NSE.
C28_NoSilentDefaultInPositions ==
    last.op = "get_positions" =>
        \A i \in 1..Len(last.result.items) :
            LET pos == last.result.items[i]
                p == pos.raw.payload
            IN  /\ p.productType \notin MappedProducts => pos.product_type # "INTRADAY"
                /\ p.exchangeSegment \notin MappedSegments => pos.exchange # "NSE"

\* C29: an operation whose capability flag is declared true can succeed: on an
\* authenticated driver that declares supports_gtt, place_gtt_oco_order for
\* RELIANCE on NSE returns status ok for at least one behaviour of the broker.
C29_DeclaredGttCanSucceed ==
    (last = Idle /\ dhan /\ capabilities.supports_gtt) =>
        ENABLED (/\ PlaceGttOcoOrder({"NSE"}, {"RELIANCE"})
                 /\ last'.result.status = "ok")

\* C30: an invocation of place_order makes at most one placement call to the
\* broker; it returns ok only if it made that call and the answer to it had
\* status success; and it ends, without raising, either accepted (status ok
\* with an order id, no message) or rejected (status error with a message, no
\* order id).
C30_OnePlacementOneVerdict ==
    last.op = "place_order" =>
        /\ Len(CallsTo("place_order")) <= 1
        /\ ~last.raised
        /\ last.result.status \in {"ok", "error"}
        /\ last.result.status = "ok" =>
              /\ Len(CallsTo("place_order")) = 1
              /\ last.result.raw.populated
              /\ last.result.raw.payload.kind = "dict"
              /\ last.result.raw.payload.status = "success"
              /\ last.result.order_id # PyNone
              /\ last.result.message = PyNone
        /\ last.result.status = "error" =>
              /\ last.result.order_id = PyNone
              /\ last.result.message # PyNone

\* a placement the broker rejected: one call, one error response
C30_Witness ==
    /\ last.op = "place_order"
    /\ Len(CallsTo("place_order")) = 1
    /\ last.result.status = "error"
    /\ last.result.raw.populated
    /\ last.result.raw.payload.status = "failure"

\* C31: place_order leaves the caller's OrderRequest as it was: on every path
\* the request after the call equals the request before the call.
C31_RequestUnchanged ==
    last.op = "place_order" => last.args.request_after = last.args.request

\* C32: the quote call of get_quote for a symbol that _get_exchange_segment
\* classifies as an index carries the instrument type INDEX, and the
\* instrument type EQUITY is sent only with an equity segment.
C32_IndexQuotedAsIndex ==
    last.op = "get_quote" =>
        \A i \in 1..Len(CallsTo("get_quote")) :
            LET sent == CallsTo("get_quote")[i].args
            IN  /\ sent.exchange_segment = "IDX_I" => sent.instrument_type = "INDEX"
                /\ sent.instrument_type = "EQUITY" =>
                      sent.exchange_segment \in {"NSE_EQ", "BSE_EQ"}

\* C33: the tick loop survives the failure of a tick. The loop ends only on a
\* shutdown request, whatever exceptions the ticks raised; the batches are
\* processed in the order they were enqueued; and every batch that is
\* enqueued, also after a tick that raised, is eventually processed unless a
\* shutdown is requested.
C33_LoopSurvivesTickFailures ==
    /\ [](tick_loop.pc = "done" => tick_loop.shutdown)
    /\ [](\A i \in 1..Len(tick_loop.processed) : tick_loop.processed[i].id = i)
    /\ \A k \in 1..MaxTicks :
          (tick_loop.put >= k) ~> (Len(tick_loop.processed) >= k \/ tick_loop.pc = "done")

\* a batch raised and a batch enqueued after it was processed, the loop running
C33_Witness ==
    /\ tick_loop.pc = "get"
    /\ Len(tick_loop.processed) >= 2
    /\ tick_loop.processed[1].outcome = "exception"
    /\ tick_loop.processed[2].outcome = "ok"
    /\ ~tick_loop.shutdown

====
